---- MODULE Spec2Model ----
(***************************************************************************)
(* State-machine model of bdl-ts/src/ir-builder.ts: the async generator    *)
(* gather (module graph traversal) driven by the for-await loop of         *)
(* buildBdlIr, and the per-module symbol resolution and definition         *)
(* builders that the loop body runs.                                       *)
(*                                                                         *)
(* Strings of the source text are kept as strings: an ast node stands for  *)
(* the text its span covers.  Attribute lists are not modelled.  Module     *)
(* paths and names are ordinary identifiers; the property name __proto__   *)
(* is in none of the universes.                                            *)
(***************************************************************************)
EXTENDS Integers, Sequences, FiniteSets, TLC

VARIABLES
    files,          \* resolveModuleFile as a mapping: module path -> { fileUrl, text }
    entries,        \* config.entryModulePaths
    status,         \* "running" | "done" | "failed": the promise of buildBdlIr
    pc,             \* where gather / the for-await loop stands
    queue,          \* gather: queue
    visited,        \* gather: visited
    modulePath,     \* gather: modulePath of the current iteration
    inflight,       \* paths whose resolveModuleFile promise is pending
    fetchCount,     \* number of resolveModuleFile calls per path in this build
    moduleFile,     \* the record gather yielded last
    asts,           \* buildBdlIr: asts
    ir,             \* buildBdlIr: ir = { modules, defs }
    localDefNames,  \* loop body: localDefNames of the module recorded last
    importedNames,  \* loop body: importedNames of the module recorded last
    result,         \* what the caller received
    rejected,       \* the error the promise of buildBdlIr was rejected with, if any
    thrown,         \* the error raised by resolveModuleFile or parseBdl, if any
    build,          \* "first" | "second": which build of the caller this is
    first           \* the entries and the ir of the first build, once it returned

vars == << files, entries, status, pc, queue, visited, modulePath, inflight,
           fetchCount, moduleFile, asts, ir, localDefNames, importedNames,
           result, rejected, thrown, build, first >>

-----------------------------------------------------------------------------
(* Bounds and universes *)

\* module paths that resolveModuleFile knows
Paths == {"a", "b", "c"}

\* most import statements in a program of the graph universe
MaxEdges == 2

\* most entries in config.entryModulePaths
MaxEntries == 2

EntryLists == UNION {[1..n -> Paths] : n \in 0..MaxEntries}

\* most import items in the module of the name universe
MaxImportItems == 2

\* most definitions in the module of the name universe
MaxDefs == 2

\* most items in the socket statement of the socket universe
MaxSocketItems == 3

-----------------------------------------------------------------------------
(* Values *)

\* JavaScript's undefined, where a string is expected
Undefined == "<undefined>"

\* an absent object (find() without a match)
UndefinedItem == [undefined |-> TRUE]

NoError == "<none>"
NoResult == [returned |-> FALSE]
EmptyMap == [k \in {} |-> k]
EmptyIr == [modules |-> EmptyMap, defs |-> EmptyMap]

\* obj[k] = v on a plain object used as a dictionary
Put(obj, k, v) == [x \in DOMAIN obj \cup {k} |-> IF x = k THEN v ELSE obj[x]]

Range(s) == {s[i] : i \in DOMAIN s}

\* Property names every object literal inherits from Object.prototype
\* (those an identifier of the language can spell).
ObjectPrototypeKeys == {"constructor", "toString", "valueOf", "hasOwnProperty"}

\* The value read through an inherited property name: a function object, not a string.
InheritedValue(k) == "[Function: " \o k \o "]"

\* k in obj
JsIn(k, obj) == k \in DOMAIN obj \/ k \in ObjectPrototypeKeys

\* obj[k] when (k in obj)
JsGet(obj, k) == IF k \in DOMAIN obj THEN obj[k] ELSE InheritedValue(k)

-----------------------------------------------------------------------------
(* The parser collaborator *)

\* parseBdl(text): the syntax tree of a well-formed text
parseBdl(text) == [statements |-> text.statements]

isImport(s) == s.type = "Import"

\* getImportPaths(text, ast): the module paths of the import statements, in order
getImportPaths(text, ast) ==
    LET imps == SelectSeq(ast.statements, isImport)
    IN  [i \in 1..Len(imps) |-> imps[i].path]

-----------------------------------------------------------------------------
(* Symbol resolution *)

\* const typePath = `${importStatement.modulePath}.${importItem.name}`
TypePath(importStatement, importItem) ==
    importStatement.modulePath \o "." \o importItem.name

\* Variant of AddImportItem that enters the declared name as well as the alias.
AddImportItem_Both(names, importStatement, importItem) ==
    IF importItem.as # Undefined
    THEN Put(Put(names, importItem.name, TypePath(importStatement, importItem)),
             importItem.as, TypePath(importStatement, importItem))
    ELSE Put(names, importItem.name, TypePath(importStatement, importItem))

\* the body of the inner loop over importStatement.items
AddImportItem(names, importStatement, importItem) ==
    IF importItem.as # Undefined
    THEN Put(names, importItem.as, TypePath(importStatement, importItem))
    ELSE Put(names, importItem.name, TypePath(importStatement, importItem))

RECURSIVE AddImportItems(_, _, _)
AddImportItems(names, importStatement, j) ==
    IF j > Len(importStatement.items) THEN names
    ELSE AddImportItems(AddImportItem(names, importStatement, importStatement.items[j]),
                        importStatement, j + 1)

RECURSIVE AddImports(_, _, _)
AddImports(names, imports, i) ==
    IF i > Len(imports) THEN names
    ELSE AddImports(AddImportItems(names, imports[i], 1), imports, i + 1)

\* Variant of BuildImportedNames with one map shared by all modules of a build.
BuildImportedNames_Shared(imports) == AddImports(importedNames, imports, 1)

\* importedNames after the two nested loops
BuildImportedNames(imports) == AddImports(EmptyMap, imports, 1)

\* the closure typeNameToPath of one module
typeNameToPath(path, locals, names, typeName) ==
    IF typeName \in locals THEN path \o "." \o typeName
    ELSE IF JsIn(typeName, names) THEN JsGet(names, typeName)
    ELSE typeName

-----------------------------------------------------------------------------
(* Definition builders.  ctx = [path, locals, names] is the closure's scope. *)

Resolve(ctx, typeName) == typeNameToPath(ctx.path, ctx.locals, ctx.names, typeName)

buildType(type, ctx) ==
    IF ~type.hasContainer
    THEN [type |-> "Plain", valueTypePath |-> Resolve(ctx, type.valueType)]
    ELSE IF type.keyType = Undefined
    THEN [type |-> "Array", valueTypePath |-> Resolve(ctx, type.valueType)]
    ELSE [type |-> "Dictionary", valueTypePath |-> Resolve(ctx, type.valueType),
          keyTypePath |-> Resolve(ctx, type.keyType)]

buildImport(importNode) ==
    [modulePath |-> importNode.path,
     items |-> [j \in 1..Len(importNode.items) |->
                  [name |-> importNode.items[j].name,
                   as |-> importNode.items[j].alias]]]

buildEnum(statement) ==
    [type |-> "Enum",
     items |-> [j \in 1..Len(statement.items) |-> [name |-> statement.items[j].name]]]

buildStructField(field, ctx) ==
    [name |-> field.name,
     itemType |-> buildType(field.itemType, ctx),
     optional |-> field.question]

buildStruct(statement, ctx) ==
    [type |-> "Struct",
     fields |-> [j \in 1..Len(statement.fields) |->
                   buildStructField(statement.fields[j], ctx)]]

buildUnion(statement, ctx) ==
    [type |-> "Union",
     items |-> [j \in 1..Len(statement.items) |->
                  [name |-> statement.items[j].name,
                   fields |-> [k \in 1..Len(statement.items[j].fields) |->
                                 buildStructField(statement.items[j].fields[k], ctx)]]]]

buildScalar(statement, ctx) ==
    [type |-> "Scalar", scalarType |-> buildType(statement.scalarType, ctx)]

buildRpc(statement, ctx) ==
    [type |-> "Rpc",
     items |-> [j \in 1..Len(statement.items) |->
                  [name |-> statement.items[j].name,
                   inputType |-> buildType(statement.items[j].inputType, ctx),
                   outputType |-> buildType(statement.items[j].outputType, ctx),
                   errorType |-> IF statement.items[j].hasError
                                 THEN buildType(statement.items[j].errorType, ctx)
                                 ELSE UndefinedItem]]]

buildSocketItem(item, ctx) ==
    [messageType |-> buildType(item.messageType, ctx)]

\* Array.prototype.find with the two role labels: index of the first match, 0 if none
RECURSIVE FindItem(_, _, _, _)
FindItem(items, sender, receiver, j) ==
    IF j > Len(items) THEN 0
    ELSE IF items[j].sender = sender /\ items[j].receiver = receiver THEN j
    ELSE FindItem(items, sender, receiver, j + 1)

\* Variant of buildSocket that takes the channels by position.
buildSocket_ByPosition(statement, ctx) ==
    [type |-> "Socket",
     serverToClient |-> IF Len(statement.items) < 1 THEN UndefinedItem
                        ELSE buildSocketItem(statement.items[1], ctx),
     clientToServer |-> IF Len(statement.items) < 2 THEN UndefinedItem
                        ELSE buildSocketItem(statement.items[2], ctx)]

buildSocket(statement, ctx) ==
    LET s2c == FindItem(statement.items, "server", "client", 1)
        c2s == FindItem(statement.items, "client", "server", 1)
    IN  [type |-> "Socket",
         serverToClient |-> IF s2c = 0 THEN UndefinedItem
                            ELSE buildSocketItem(statement.items[s2c], ctx),
         clientToServer |-> IF c2s = 0 THEN UndefinedItem
                            ELSE buildSocketItem(statement.items[c2s], ctx)]

\* buildDefBodyFns: the statement types that have a builder
HasBuilder(type) == type \in {"Enum", "Rpc", "Scalar", "Socket", "Struct", "Union"}

buildDefBody(statement, ctx) ==
    CASE statement.type = "Enum" -> buildEnum(statement)
      [] statement.type = "Rpc" -> buildRpc(statement, ctx)
      [] statement.type = "Scalar" -> buildScalar(statement, ctx)
      [] statement.type = "Socket" -> buildSocket(statement, ctx)
      [] statement.type = "Struct" -> buildStruct(statement, ctx)
      [] statement.type = "Union" -> buildUnion(statement, ctx)

\* buildDef, for a statement whose type has a builder
buildDef(statement, ctx) ==
    [name |-> statement.name, body |-> buildDefBody(statement, ctx)]

\* "name" in s
HasName(s) == "name" \in DOMAIN s

\* Variant of AddDefs that keeps the definition already stored under a path.
RECURSIVE AddDefs_KeepFirst(_, _, _, _)
AddDefs_KeepFirst(acc, defStatements, ctx, i) ==
    IF i > Len(defStatements) THEN acc
    ELSE IF ~HasBuilder(defStatements[i].type)
    THEN AddDefs_KeepFirst(acc, defStatements, ctx, i + 1)
    ELSE LET def == buildDef(defStatements[i], ctx)
             defPath == ctx.path \o "." \o def.name
         IN  AddDefs_KeepFirst(
                 [defPaths |-> Append(acc.defPaths, defPath),
                  defs |-> IF defPath \in DOMAIN acc.defs THEN acc.defs
                           ELSE Put(acc.defs, defPath, def)],
                 defStatements, ctx, i + 1)

\* the loop over defStatements: acc = [defPaths, defs]
RECURSIVE AddDefs(_, _, _, _)
AddDefs(acc, defStatements, ctx, i) ==
    IF i > Len(defStatements) THEN acc
    ELSE IF ~HasBuilder(defStatements[i].type)
    THEN AddDefs(acc, defStatements, ctx, i + 1)
    ELSE LET def == buildDef(defStatements[i], ctx)
             defPath == ctx.path \o "." \o def.name
         IN  AddDefs([defPaths |-> Append(acc.defPaths, defPath),
                      defs |-> Put(acc.defs, defPath, def)],
                     defStatements, ctx, i + 1)

\* the scope of the closure typeNameToPath of module mf: localDefNames and
\* importedNames as the loop body computes them, and the ir form of the imports
ModuleScope(mf) ==
    LET defStatements == SelectSeq(mf.ast.statements, HasName)
        importNodes == SelectSeq(mf.ast.statements, isImport)
        imports == [i \in 1..Len(importNodes) |-> buildImport(importNodes[i])]
    IN  [path |-> mf.modulePath,
         locals |-> {defStatements[i].name : i \in 1..Len(defStatements)},
         imports |-> imports,
         names |-> BuildImportedNames(imports)]

\* the rest of the loop body, given the scope: the definitions and the module
RecordModule(mf, oldAsts, oldIr, ctx) ==
    LET defStatements == SelectSeq(mf.ast.statements, HasName)
        acc == AddDefs([defPaths |-> << >>, defs |-> oldIr.defs], defStatements, ctx, 1)
        module == [fileUrl |-> mf.fileUrl, defPaths |-> acc.defPaths,
                   imports |-> ctx.imports]
    IN  [asts |-> Put(oldAsts, mf.modulePath, mf.ast),
         ir |-> [modules |-> Put(oldIr.modules, mf.modulePath, module),
                 defs |-> acc.defs],
         localDefNames |-> ctx.locals,
         importedNames |-> ctx.names]

\* one run of the body of the for-await loop on the yielded moduleFile mf:
\* the values of asts, ir and of the body's locals when the body ends
LoopBody(mf, oldAsts, oldIr) ==
    CHOOSE after \in {RecordModule(mf, oldAsts, oldIr, ctx) : ctx \in {ModuleScope(mf)}} :
        TRUE

-----------------------------------------------------------------------------
(* gather and the for-await loop of buildBdlIr *)

\* the last element of the queue, which queue.pop() removes
Last(q) == q[Len(q)]
Front(q) == SubSeq(q, 1, Len(q) - 1)

\* Variant of PopVisited that looks at the last path without removing it.
PopVisited_Peek ==
    /\ status = "running" /\ pc = "loop"
    /\ Len(queue) > 0
    /\ Last(queue) \in visited
    /\ modulePath' = Last(queue)
    /\ UNCHANGED << files, entries, status, pc, queue, visited, inflight, fetchCount,
                    moduleFile, asts, ir, localDefNames, importedNames, result, rejected,
                    thrown, build, first >>

\* queue.pop() finds a path that was visited before: continue
PopVisited ==
    /\ status = "running" /\ pc = "loop"
    /\ Len(queue) > 0
    /\ Last(queue) \in visited
    /\ queue' = Front(queue)
    /\ modulePath' = Last(queue)
    /\ UNCHANGED << files, entries, status, pc, visited, inflight, fetchCount, moduleFile,
                    asts, ir, localDefNames, importedNames, result, rejected, thrown, build, first >>

\* Variant of PopFetch that forgets visited.add(modulePath).
PopFetch_NoMark ==
    /\ status = "running" /\ pc = "loop"
    /\ Len(queue) > 0
    /\ Last(queue) \notin visited
    /\ queue' = Front(queue)
    /\ modulePath' = Last(queue)
    /\ inflight' = inflight \cup {Last(queue)}
    /\ fetchCount' = [fetchCount EXCEPT ![Last(queue)] = @ + 1]
    /\ pc' = "fetching"
    /\ UNCHANGED << files, entries, status, visited, moduleFile, asts, ir, localDefNames,
                    importedNames, result, rejected, thrown, build, first >>

\* queue.pop() finds a new path: visited.add, then resolveModuleFile is called
PopFetch ==
    /\ status = "running" /\ pc = "loop"
    /\ Len(queue) > 0
    /\ Last(queue) \notin visited
    /\ queue' = Front(queue)
    /\ modulePath' = Last(queue)
    /\ visited' = visited \cup {Last(queue)}
    /\ inflight' = inflight \cup {Last(queue)}
    /\ fetchCount' = [fetchCount EXCEPT ![Last(queue)] = @ + 1]
    /\ pc' = "fetching"
    /\ UNCHANGED << files, entries, status, moduleFile, asts, ir, localDefNames,
                    importedNames, result, rejected, thrown, build, first >>

\* Variant of FetchOk that goes on with the next path instead of yielding.
FetchOk_NoYield ==
    /\ status = "running" /\ pc = "fetching"
    /\ inflight' = inflight \ {modulePath}
    /\ moduleFile' = [fileUrl |-> files[modulePath].fileUrl,
                      text |-> files[modulePath].text,
                      modulePath |-> modulePath,
                      ast |-> parseBdl(files[modulePath].text)]
    /\ pc' = "loop"
    /\ UNCHANGED << files, entries, status, queue, visited, modulePath, fetchCount,
                    asts, ir, localDefNames, importedNames, result, rejected, thrown,
                    build, first >>

\* the awaited promise resolves, the text parses, the record is yielded
FetchOk ==
    /\ status = "running" /\ pc = "fetching"
    /\ inflight' = inflight \ {modulePath}
    /\ moduleFile' = [fileUrl |-> files[modulePath].fileUrl,
                      text |-> files[modulePath].text,
                      modulePath |-> modulePath,
                      ast |-> parseBdl(files[modulePath].text)]
    /\ pc' = "yielded"
    /\ UNCHANGED << files, entries, status, queue, visited, modulePath, fetchCount,
                    asts, ir, localDefNames, importedNames, result, rejected, thrown, build, first >>

\* Variant of Abort that catches the error and lets the loop go on.
Abort_Swallow(error) ==
    /\ thrown' = error
    /\ UNCHANGED << status, rejected, result, queue, visited, fetchCount, asts, ir >>

\* an error thrown inside gather rejects the promise of buildBdlIr
Abort(error) ==
    /\ thrown' = error
    /\ rejected' = error
    /\ status' = "failed"
    /\ UNCHANGED << result, queue, visited, fetchCount, asts, ir >>

\* the awaited promise rejects
FetchFail ==
    /\ status = "running" /\ pc = "fetching"
    /\ inflight' = inflight \ {modulePath}
    /\ Abort("ModuleResolutionError")
    /\ UNCHANGED << files, entries, pc, modulePath, moduleFile, localDefNames,
                    importedNames, build, first >>

\* the awaited promise resolves and parseBdl throws
ParseFail ==
    /\ status = "running" /\ pc = "fetching"
    /\ inflight' = inflight \ {modulePath}
    /\ Abort("ParseError")
    /\ UNCHANGED << files, entries, pc, modulePath, moduleFile, localDefNames,
                    importedNames, build, first >>

\* the body of the for-await loop, then next() resumes gather
Record ==
    /\ status = "running" /\ pc = "yielded"
    /\ \E after \in {LoopBody(moduleFile, asts, ir)} :
           /\ asts' = after.asts
           /\ ir' = after.ir
           /\ localDefNames' = after.localDefNames
           /\ importedNames' = after.importedNames
    /\ pc' = "resumed"
    /\ UNCHANGED << files, entries, status, queue, visited, modulePath, inflight,
                    fetchCount, moduleFile, result, rejected, thrown, build, first >>

\* Variant of PushImports that pushes only the first import path.
PushImports_FirstOnly ==
    /\ status = "running" /\ pc = "resumed"
    /\ LET importPaths == getImportPaths(moduleFile.text, moduleFile.ast)
       IN  queue' = IF Len(importPaths) = 0 THEN queue ELSE Append(queue, importPaths[1])
    /\ pc' = "loop"
    /\ UNCHANGED << files, entries, status, visited, modulePath, inflight, fetchCount,
                    moduleFile, asts, ir, localDefNames, importedNames, result, rejected,
                    thrown, build, first >>

\* gather after the yield: queue.push(...importPaths)
PushImports ==
    /\ status = "running" /\ pc = "resumed"
    /\ queue' = queue \o getImportPaths(moduleFile.text, moduleFile.ast)
    /\ pc' = "loop"
    /\ UNCHANGED << files, entries, status, visited, modulePath, inflight, fetchCount,
                    moduleFile, asts, ir, localDefNames, importedNames, result, rejected,
                    thrown, build, first >>

\* the queue is empty: gather returns, the loop ends, return { asts, ir }
Return ==
    /\ status = "running" /\ pc = "loop"
    /\ Len(queue) = 0
    /\ result' = [returned |-> TRUE, asts |-> asts, ir |-> ir]
    /\ status' = "done"
    /\ UNCHANGED << files, entries, pc, queue, visited, modulePath, inflight, fetchCount,
                    moduleFile, asts, ir, localDefNames, importedNames, rejected, thrown,
                    build, first >>

\* the caller builds once more, from the same set of entries in any order
Rebuild ==
    /\ status = "done" /\ build = "first"
    /\ build' = "second"
    /\ first' = [entries |-> entries, ir |-> result.ir]
    /\ entries' \in {e \in EntryLists : Range(e) = Range(entries)}
    /\ status' = "running"
    /\ pc' = "loop"
    /\ queue' = entries'
    /\ visited' = {}
    /\ inflight' = {}
    /\ fetchCount' = [p \in Paths |-> 0]
    /\ asts' = EmptyMap
    /\ ir' = EmptyIr
    /\ result' = NoResult
    /\ UNCHANGED << files, modulePath, moduleFile, localDefNames, importedNames,
                    rejected, thrown >>

-----------------------------------------------------------------------------
(* Programs *)

PlainType(typeName) == [valueType |-> typeName, hasContainer |-> FALSE, keyType |-> Undefined]
ArrayType(typeName) == [valueType |-> typeName, hasContainer |-> TRUE, keyType |-> Undefined]

ImportNode(path, items) == [type |-> "Import", path |-> path, items |-> items]
ScalarNode(name, type) == [type |-> "Scalar", name |-> name, scalarType |-> type]

FileOf(path, statements) ==
    [fileUrl |-> "file:///" \o path \o ".bdl", text |-> [statements |-> statements]]

\* the state of buildBdlIr when the for-await loop asks gather for its first record
Start(fs, es) ==
    /\ files = fs
    /\ entries = es
    /\ status = "running"
    /\ pc = "loop"
    /\ queue = es
    /\ visited = {}
    /\ modulePath = Undefined
    /\ inflight = {}
    /\ fetchCount = [p \in Paths |-> 0]
    /\ moduleFile = UndefinedItem
    /\ asts = EmptyMap
    /\ ir = EmptyIr
    /\ localDefNames = {}
    /\ importedNames = EmptyMap
    /\ result = NoResult
    /\ rejected = NoError
    /\ thrown = NoError
    /\ build = "first"
    /\ first = [entries |-> << >>, ir |-> EmptyIr]

\* import graphs: a list of import edges <<from, to>>, in declaration order
EdgeLists == UNION {[1..n -> Paths \X Paths] : n \in 0..MaxEdges}

IsEdgeFrom(p, e) == e[1] = p

\* module p of a graph: one import statement per edge from p, and one definition
GraphStatements(edges, p) ==
    LET from == SelectSeq(edges, LAMBDA e : IsEdgeFrom(p, e))
    IN  [i \in 1..Len(from) |->
           ImportNode(from[i][2], << [name |-> "T", alias |-> Undefined] >>)]
        \o << ScalarNode("Id", PlainType("T")) >>

GraphFiles(edges) == [p \in Paths |-> FileOf(p, GraphStatements(edges, p))]

Init == \E edges \in EdgeLists, es \in EntryLists : Start(GraphFiles(edges), es)

-----------------------------------------------------------------------------
(* The name universe: module a imports names from b and c, with and without
   an alias, and declares scalars that all refer to one type name, probe. *)

ImportItems ==
    {[name |-> "X", alias |-> Undefined],
     [name |-> "Y", alias |-> Undefined],
     [name |-> "X", alias |-> "Y"]}

\* import items of module a in declaration order, each with the module it is imported from
ItemLists == UNION {[1..n -> {"b", "c"} \X ImportItems] : n \in 0..MaxImportItems}

\* definitions of module a: a name and whether the scalar is an array
DefLists == UNION {[1..n -> {"X", "Y"} \X BOOLEAN] : n \in 0..MaxDefs}

\* the type names a definition may refer to
ProbeNames == {"X", "Y", "int", "toString"}

IsItemFrom(p, it) == it[1] = p

\* import p ( items ), or nothing when no item is imported from p
ImportFrom(p, items) ==
    LET from == SelectSeq(items, LAMBDA it : IsItemFrom(p, it))
    IN  IF Len(from) = 0 THEN << >>
        ELSE << ImportNode(p, [i \in 1..Len(from) |-> from[i][2]]) >>

NameStatements(items, defs, probe) ==
    ImportFrom("b", items) \o ImportFrom("c", items)
    \o [i \in 1..Len(defs) |->
          ScalarNode(defs[i][1],
                     IF defs[i][2] THEN ArrayType(probe) ELSE PlainType(probe))]

NameFiles(items, defs, probe) ==
    [p \in Paths |->
        FileOf(p, CASE p = "a" -> NameStatements(items, defs, probe)
                    [] p = "b" -> << ImportNode("a", << [name |-> "Y", alias |-> Undefined] >>),
                                     ScalarNode("X", PlainType(probe)) >>
                    [] p = "c" -> << ScalarNode("Y", PlainType(probe)) >>)]

InitNames ==
    \E items \in ItemLists, defs \in DefLists, probe \in ProbeNames :
        Start(NameFiles(items, defs, probe), << "a" >>)

-----------------------------------------------------------------------------
(* The socket universe: module a declares one socket whose items carry any
   role labels in any order. *)

Roles == {"server", "client"}

SocketItems ==
    {[sender |-> s, receiver |-> r, messageType |-> PlainType(m)] :
        s \in Roles, r \in Roles, m \in {"M1", "M2"}}

SocketItemLists == UNION {[1..n -> SocketItems] : n \in 0..MaxSocketItems}

SocketNode(name, items) == [type |-> "Socket", name |-> name, items |-> items]

SocketFiles(items) ==
    [p \in Paths |->
        FileOf(p, CASE p = "a" -> << ImportNode("b", << [name |-> "M1", alias |-> Undefined] >>),
                                     SocketNode("S", items) >>
                    [] p = "b" -> << ImportNode("a", << [name |-> "S", alias |-> Undefined] >>),
                                     ScalarNode("M1", PlainType("int")) >>
                    [] p = "c" -> << >>)]

InitSocket == \E items \in SocketItemLists : Start(SocketFiles(items), << "a" >>)

Next ==
    \/ PopVisited
    \/ PopFetch
    \/ FetchOk
    \/ FetchFail
    \/ ParseFail
    \/ Record
    \/ PushImports
    \/ Return

Spec == Init /\ [][Next]_vars

\* a build in which every fetch returns a text that parses
NextOk ==
    \/ PopVisited
    \/ PopFetch
    \/ FetchOk
    \/ Record
    \/ PushImports
    \/ Return

\* the event loop runs every continuation that is ready
LiveSpec == Init /\ [][NextOk]_vars /\ WF_vars(NextOk)

NextTwice ==
    \/ Next
    \/ Rebuild

\* two builds in a row
TwoBuilds == Init /\ [][NextTwice]_vars

\* builds of the name universe
NamesSpec == InitNames /\ [][Next]_vars

\* builds of the socket universe
SocketSpec == InitSocket /\ [][Next]_vars

-----------------------------------------------------------------------------
(* The import graph of the program *)

ImportsOf(p) == Range(getImportPaths(files[p].text, parseBdl(files[p].text)))

RECURSIVE Closure(_)
Closure(S) ==
    LET N == S \cup UNION {ImportsOf(p) : p \in S}
    IN  IF N = S THEN S ELSE Closure(N)

\* the module paths reachable from the entries by zero or more import hops
Reachable == Closure(Range(entries))

\* number of import statements of reachable modules, and of entries, that name p
InDegree(p) ==
    Cardinality({i \in DOMAIN entries : entries[i] = p})
    + Cardinality({<<q, i>> \in Reachable \X (1..MaxEdges) :
                     LET ips == getImportPaths(files[q].text, parseBdl(files[q].text))
                     IN  i <= Len(ips) /\ ips[i] = p})

-----------------------------------------------------------------------------
(* Claims about the traversal *)

\* C1: within one build resolveModuleFile is called at most once per path and
\* only for paths reachable from the entries; when the build completes it has
\* been called exactly once for every reachable path.
C1_FetchedExactlyOnce ==
    /\ \A p \in Paths : fetchCount[p] <= 1
    /\ \A p \in Paths : fetchCount[p] > 0 => p \in Reachable
    /\ status = "done" => \A p \in Reachable : fetchCount[p] = 1

\* a completed build of a graph where some module is reached along two edges
\* and some module is not reachable at all
C1_Witness ==
    /\ status = "done"
    /\ Reachable # Paths
    /\ Cardinality(Reachable) = 2
    /\ \E p \in Reachable : InDegree(p) >= 2 /\ fetchCount[p] = 1

\* C2: when the build completes, the keys of ir.modules and the keys of asts
\* are exactly the reachable module paths.
C2_ModuleKeysAreReachable ==
    status = "done" =>
        /\ result.returned
        /\ DOMAIN result.ir.modules = Reachable
        /\ DOMAIN result.asts = Reachable

\* entries [a, b] that both import c: three modules, c recorded once
C2_Witness ==
    /\ status = "done"
    /\ Len(entries) = 2 /\ entries[1] # entries[2]
    /\ \E p \in Paths \ Range(entries) :
          /\ \A e \in Range(entries) : p \in ImportsOf(e)
          /\ DOMAIN result.ir.modules = Range(entries) \cup {p}

\* C5 (state part): once resolveModuleFile or the parser has thrown, the build
\* has failed with that error, nothing was returned and no fetch is pending.
C5_FailureState ==
    thrown # NoError =>
        /\ status = "failed"
        /\ rejected = thrown
        /\ result = NoResult
        /\ inflight = {}
        /\ fetchCount[modulePath] = 1

\* C5: a failure of resolveModuleFile or of the parser ends the build in failure
\* with that error and without a result, and no resolveModuleFile call
\* follows it (so the failed path is not fetched again).
C5_FailureAborts ==
    /\ []C5_FailureState
    /\ [][thrown # NoError => fetchCount' = fetchCount /\ result' = NoResult]_vars

\* a failure while one module is already in ir and paths are left on the frontier
C5_Witness ==
    /\ thrown # NoError
    /\ status = "failed"
    /\ DOMAIN ir.modules # {}
    /\ \E i \in DOMAIN queue : queue[i] \notin visited

\* C10: at most one resolveModuleFile call is pending; a pending path is in
\* visited; and while a call is pending every module fetched before it has its
\* entry in ir.modules and its imports have gone through the frontier.
C10_OneFetchAtATime ==
    /\ Cardinality(inflight) <= 1
    /\ inflight \subseteq visited
    /\ inflight # {} =>
          /\ pc = "fetching"
          /\ inflight = {modulePath}
          /\ DOMAIN ir.modules = visited \ inflight
          /\ DOMAIN asts = visited \ inflight
          /\ \A p \in visited \ inflight :
                \A q \in ImportsOf(p) : q \in visited \/ q \in Range(queue)

\* the second fetch of a build is pending, the first module is recorded and one
\* of its imports still waits on the frontier
C10_Witness ==
    /\ inflight # {}
    /\ Cardinality(DOMAIN ir.modules) >= 1
    /\ \E i \in DOMAIN queue : queue[i] \notin visited

\* C6: when every fetch returns a text that parses, the build completes with a
\* result, whatever cycles the import graph has.
C6_Terminates == <>(status = "done" /\ result.returned /\ queue = << >>)

\* a completed build of a graph with an import cycle through two modules
C6_Witness ==
    /\ status = "done"
    /\ \E p \in Reachable, q \in Reachable :
          p # q /\ q \in ImportsOf(p) /\ p \in ImportsOf(q)

\* C8: a second build from the same set of entries, listed in any order,
\* returns the same ir.modules and ir.defs as the first.
C8_SameIr ==
    (status = "done" /\ build = "second") =>
        /\ result.ir.modules = first.ir.modules
        /\ result.ir.defs = first.ir.defs

\* the second build listed the entries in another order and visited three modules
C8_Witness ==
    /\ status = "done" /\ build = "second"
    /\ first.entries # entries
    /\ Len(first.entries) = Len(entries)
    /\ Cardinality(DOMAIN result.ir.modules) = 3

-----------------------------------------------------------------------------
(* Claims about symbol resolution and the definitions *)

\* the import statements and the named statements of module p, as parsed
ImportNodesOf(p) == SelectSeq(parseBdl(files[p].text).statements, isImport)
DefNodesOf(p) == SelectSeq(parseBdl(files[p].text).statements, HasName)

\* the import items of module p: <<i, j>> is item j of import statement i
ItemPositions(p) ==
    UNION {{<<i, j>> : j \in 1..Len(ImportNodesOf(p)[i].items)} :
             i \in 1..Len(ImportNodesOf(p))}

Before(x, y) == x[1] < y[1] \/ (x[1] = y[1] /\ x[2] < y[2])

ItemAt(p, x) == ImportNodesOf(p)[x[1]].items[x[2]]

\* the name an import item binds inside the importing module
KeyAt(p, x) == IF ItemAt(p, x).alias # Undefined THEN ItemAt(p, x).alias ELSE ItemAt(p, x).name

\* <importedModulePath>.<declaredName>
TargetAt(p, x) == ImportNodesOf(p)[x[1]].path \o "." \o ItemAt(p, x).name

\* no later import item of module p binds the same name
IsLastWithKey(p, x) ==
    \A y \in ItemPositions(p) : KeyAt(p, y) = KeyAt(p, x) => ~Before(x, y)

\* the type path recorded for the definition built from statement s of module p
RecordedTypePath(p, s) == ir.defs[p \o "." \o s.name].body.scalarType.valueTypePath

\* C3 as stated: an import item with an alias enters both the declared name
\* and the alias in the module's alias map, each with target P.N.
C3_BothNamesMapped ==
    pc = "resumed" =>
        \A x \in ItemPositions(modulePath) :
            ItemAt(modulePath, x).alias # Undefined =>
                /\ ItemAt(modulePath, x).name \in DOMAIN importedNames
                /\ importedNames[ItemAt(modulePath, x).name] = TargetAt(modulePath, x)
                /\ ItemAt(modulePath, x).alias \in DOMAIN importedNames
                /\ importedNames[ItemAt(modulePath, x).alias] = TargetAt(modulePath, x)

\* C3 amended: an import item enters one name in the alias map, its alias if
\* it has one and its declared name otherwise, with target P.N; a later item
\* with the same name overwrites it.  That name, used as a type inside the
\* module, resolves to P.N when it is not a local definition.
C3_AliasOnly ==
    pc = "resumed" =>
        /\ DOMAIN importedNames = {KeyAt(modulePath, x) : x \in ItemPositions(modulePath)}
        /\ \A x \in ItemPositions(modulePath) :
              IsLastWithKey(modulePath, x) =>
                 /\ importedNames[KeyAt(modulePath, x)] = TargetAt(modulePath, x)
                 /\ KeyAt(modulePath, x) \notin localDefNames =>
                       \A i \in DOMAIN DefNodesOf(modulePath) :
                           LET s == DefNodesOf(modulePath)[i]
                           IN  s.scalarType.valueType = KeyAt(modulePath, x) =>
                                  RecordedTypePath(modulePath, s) = TargetAt(modulePath, x)

\* module a holds  import b (X as Y)  and a scalar of type Y: Y is bound to
\* b.X, X is not bound, and the scalar's type resolves to b.X
C3_Witness ==
    /\ pc = "resumed" /\ modulePath = "a"
    /\ \E x \in ItemPositions("a") :
          /\ ItemAt("a", x).name = "X" /\ ItemAt("a", x).alias = "Y"
          /\ TargetAt("a", x) = "b.X"
    /\ "X" \notin DOMAIN importedNames
    /\ importedNames["Y"] = "b.X"
    /\ \E i \in DOMAIN DefNodesOf("a") :
          /\ DefNodesOf("a")[i].scalarType.valueType = "Y"
          /\ RecordedTypePath("a", DefNodesOf("a")[i]) = "b.X"

\* C4: a type name T used in module M resolves to M.T when T is a definition
\* of M, else to the alias map's target when T is in the alias map, else to
\* T itself.
C4_ResolutionOrder ==
    pc = "resumed" =>
        \A i \in DOMAIN DefNodesOf(modulePath) :
            LET s == DefNodesOf(modulePath)[i]
                T == s.scalarType.valueType
            IN  RecordedTypePath(modulePath, s) =
                   IF T \in localDefNames THEN modulePath \o "." \o T
                   ELSE IF T \in DOMAIN importedNames THEN importedNames[T]
                   ELSE T

\* C7: every path in the defPaths of a module of ir.modules is a key of
\* ir.defs, in every state of the build; of two definitions of one module
\* with the same name, ir.defs holds the one declared last.
C7_DefPathsAreKeys ==
    \A p \in DOMAIN ir.modules :
        /\ \A k \in DOMAIN ir.modules[p].defPaths :
              ir.modules[p].defPaths[k] \in DOMAIN ir.defs
        /\ Len(ir.modules[p].defPaths) = Len(DefNodesOf(p))
        /\ \A i \in DOMAIN DefNodesOf(p) :
              LET s == DefNodesOf(p)[i]
                  def == ir.defs[p \o "." \o s.name]
              IN  /\ ir.modules[p].defPaths[i] = p \o "." \o s.name
                  /\ def.name = s.name
                  /\ (\A j \in DOMAIN DefNodesOf(p) : DefNodesOf(p)[j].name = s.name => j <= i)
                        => def.body.scalarType.type =
                              (IF s.scalarType.hasContainer THEN "Array" ELSE "Plain")

\* module a declares X twice, first plain and then as an array; it is in
\* ir.modules while the build is still going on
C7_Witness ==
    /\ status = "running"
    /\ "a" \in DOMAIN ir.modules
    /\ Len(DefNodesOf("a")) = 2
    /\ DefNodesOf("a")[1].name = DefNodesOf("a")[2].name
    /\ ~DefNodesOf("a")[1].scalarType.hasContainer
    /\ DefNodesOf("a")[2].scalarType.hasContainer
    /\ ir.modules["a"].defPaths = << "a.X", "a.X" >>
    /\ ir.defs["a.X"].body.scalarType.type = "Array"
    /\ queue # << >>

-----------------------------------------------------------------------------
(* Claims about the socket builder *)

\* the items of the first socket statement of module p
SocketItemsOf(p) == DefNodesOf(p)[1].items

\* positions of the items of module p with the given role labels
Matching(p, sender, receiver) ==
    {j \in DOMAIN SocketItemsOf(p) :
        SocketItemsOf(p)[j].sender = sender /\ SocketItemsOf(p)[j].receiver = receiver}

Least(S) == CHOOSE j \in S : \A k \in S : j <= k

\* what a message type name of the socket universe stands for inside module a
SocketTypePath(typeName) == IF typeName = "M1" THEN "b.M1" ELSE typeName

\* the channel for one direction: undefined without a matching item, else
\* built from the first matching item
ExpectedChannel(p, sender, receiver) ==
    IF Matching(p, sender, receiver) = {} THEN UndefinedItem
    ELSE [messageType |->
            [type |-> "Plain",
             valueTypePath |->
                SocketTypePath(SocketItemsOf(p)[Least(Matching(p, sender, receiver))]
                                  .messageType.valueType)]]

====
